---- MODULE Spec2Model ----
(***************************************************************************)
(* The parameter sweep and the slider lookup of                            *)
(* habit_persistence_interactive.ipynb, with the solver it imports         *)
(* (habit_persistence_code2) modelled as a staged pipeline.                *)
(*                                                                         *)
(* Numbers are fixed-point: every float of the notebook is held in         *)
(* thousandths (0.001 is 1, 0.4 is 400, 100.1 is 100100).                  *)
(***************************************************************************)
EXTENDS Integers, Sequences, FiniteSets

VARIABLES alpha_range, chi_range, epsilon_range, prd, pc, taskq, running,
          value, success, number_left, evals, numerics, results, exc,
          sel, shown, run

vars == <<alpha_range, chi_range, epsilon_range, prd, pc, taskq, running,
          value, success, number_left, evals, numerics, results, exc,
          sel, shown, run>>

(***************************************************************************)
(* Bounds                                                                  *)
(***************************************************************************)
\* The sweep is explored on the first NAlpha alphas and the first NChi chis
\* of the grid (with every epsilon).
NAlpha == 3

NChi == 2

\* The horizon: T = 80 + 1 in the notebook, bounded here.
MaxT == 3

\* Grid positions whose evaluation may hit a degenerate or unstable system
\* in the sweep (the numerics of a tuple are an input of the model).
CanFail == {2, 5}

\* what the numerics of such a tuple may be in the sweep
SweepNumerics == {"regular", "singular", "spectrum"}

(***************************************************************************)
(* Fixed-point helpers                                                     *)
(***************************************************************************)
\* thousandths per unit
Milli == 1000

\* fixed-point scale of the logarithm
LogScale == 10 * Milli

None == <<>>

Min(a, b) == IF a <= b THEN a ELSE b

Max(a, b) == IF a >= b THEN a ELSE b

CeilDiv(a, b) == (a + b - 1) \div b

RECURSIVE Pow10(_)
Pow10(n) == IF n <= 0 THEN 1 ELSE 10 * Pow10(n - 1)

\* np.arange(start, stop, step): ceil((stop - start) / step) values
Arange(start, stop, step) ==
    [i \in 1..Max(0, CeilDiv(stop - start, step)) |-> start + (i - 1) * step]

\* np.round(x, decimals) of a value held in thousandths (half to even)
Round(x, decimals) ==
    LET unit == Pow10(3 - decimals)
        q == x \div unit
        r == x % unit
    IN  IF 2 * r > unit \/ (2 * r = unit /\ q % 2 = 1)
        THEN (q + 1) * unit
        ELSE q * unit

RoundAll(xs, decimals) == [i \in 1..Len(xs) |-> Round(xs[i], decimals)]

\* the odd-power series of atanh, summed until the term vanishes
RECURSIVE AtanhSeries(_, _, _)
AtanhSeries(term, z2, k) ==
    IF term = 0 THEN 0
    ELSE (term \div k) + AtanhSeries((term * z2) \div LogScale, z2, k + 2)

\* -np.log(x) for x in thousandths, result in 1/LogScale:
\* -ln(x) = 2 atanh((1 - x) / (1 + x))
NegLog(x) ==
    LET neg == x > Milli
        num == IF neg THEN x - Milli ELSE Milli - x
        z == (num * LogScale) \div (Milli + x)
        s == 2 * AtanhSeries(z, (z * z) \div LogScale, 1)
    IN  IF neg THEN 0 - s ELSE s

NegLogAll(xs) == [i \in 1..Len(xs) |-> NegLog(xs[i])]

(***************************************************************************)
(* The grid and the sliders                                                *)
(***************************************************************************)
\* the (min, max, step) triples handed to interact
alpha == <<1, 100, 5>>

chi == <<400, 960, 100>>

epsilon == <<900, 100100, 100>>

FullAlphaRange == RoundAll(Arange(alpha[1], alpha[2] + alpha[3], alpha[3]), 3)

\* FullChiRange running up to 1.0
FullChiRange_to1 == RoundAll(Arange(400, 1010, 50), 2)

\* the second assignment of chi_range, which replaces the one built from chi
FullChiRange == RoundAll(Arange(400, 960, 50), 2)

\* the second assignment of epsilon_range, which replaces the one built
\* from epsilon
FullEpsilonRange == <<900, 10000, 50000, 100000>>

\* T = 80 + 1
T == MaxT

\* Pool(5)
PoolSize == 5

\* Range with the end point included
Range_inclusive(n) == [i \in 1..(n + 1) |-> i - 1]

\* list(range(n))
Range(n) == [i \in 1..n |-> i - 1]

len_alpha == Len(alpha_range)

len_chi == Len(chi_range)

len_epsilon == Len(epsilon_range)

\* one factor of itertools.product: [x + [y] for x in result for y in pool]
Extend(result, pool) ==
    [k \in 1..(Len(result) * Len(pool)) |->
        Append(result[((k - 1) \div Len(pool)) + 1],
               pool[((k - 1) % Len(pool)) + 1])]

\* list(itertools.product(as, ps, es, ts))
Product(as, ps, es, ts) ==
    Extend(Extend(Extend(Extend(<< <<>> >>, as), ps), es), ts)

\* the values a FloatSlider(min, max, step) can take
SliderValues(s) == {s[1] + k * s[3] : k \in 0..((s[2] - s[1]) \div s[3])}

\* a slider keeps its value inside [min, max]
Clamp(v, s) == Max(s[1], Min(v, s[2]))

\* update(alpha=0.5, chi=.4, epsilon=70) as interact first calls it
Defaults == <<Clamp(500, alpha), Clamp(400, chi), Clamp(70000, epsilon)>>

(***************************************************************************)
(* The solver: habit_consumption_and_uncertainty_price                     *)
(***************************************************************************)
Numerics == {"regular", "singular", "residual", "spectrum", "resolvent"}

\* 0 <= alpha <= 1, 0 <= exp(-psi) < 1, eta > 0.  exp(-psi) is positive for
\* every psi and below 1 exactly when psi > 0.
Admissible(t) ==
    /\ 0 <= t[1] /\ t[1] <= Milli
    /\ t[2] > 0
    /\ t[3] > 0

Exception(kind, t) == <<kind, t>>

NewRun(t, num) ==
    [arg |-> t, num |-> num, stage |-> "start", checked |-> {},
     fail |-> None, income |-> <<>>, consumption |-> <<>>, out |-> None]

Idle == NewRun(<<0, 0, 0, 0>>, "regular")

\* a failure ends the run and leaves no numeric result behind
Abort(R, kind) ==
    [R EXCEPT !.stage = "failed", !.fail = Exception(kind, R.arg),
              !.income = <<>>, !.consumption = <<>>, !.out = None]

Advance(R, from, to) ==
    IF R.stage = from THEN [R EXCEPT !.stage = to] ELSE R

\* step 1: parameters and steady state
Parameters(R) ==
    IF R.stage # "start" THEN R
    ELSE IF Admissible(R.arg) THEN [R EXCEPT !.stage = "params"]
    ELSE Abort(R, "InvalidParameter")

\* step 2: eliminate C and U
Eliminate(R) ==
    IF R.stage # "params" THEN R
    ELSE IF R.num = "singular" THEN Abort(R, "DegenerateSystem")
    ELSE [R EXCEPT !.stage = "reduced"]

\* step 3: solve for J (L = I)
SolveJ(R) == Advance(R, "reduced", "J")

\* step 4: N11 and N12
ComputeN(R) == Advance(R, "J", "N")

\* step 5: the stable dynamic matrix
StableMatrix(R) == Advance(R, "N", "A")

\* Checks that performs the checks and goes on whatever they say
Checks_NoAbort(R) ==
    IF R.stage # "A" THEN R
    ELSE [R EXCEPT !.checked = {"residual", "spectrum"}, !.stage = "checked"]

\* step 6: the two checks
Checks(R) ==
    IF R.stage # "A" THEN R
    ELSE LET C == [R EXCEPT !.checked = {"residual", "spectrum"}]
         IN  IF R.num \in {"residual", "spectrum"}
             THEN Abort(C, "SolverInvariantViolation")
             ELSE [C EXCEPT !.stage = "checked"]

\* step 7: the shocks go back into the X evolution
AddShocks(R) == Advance(R, "checked", "shocks")

\* the state after n steps of the recursion from the unit impulse, seen
\* through an output map
Output(map, t, n) == <<map, t[1], t[2], t[3], n>>

\* step 8: the impulse, then n - 1 steps of the state recursion
ResponsePath(map, t, n) == [i \in 1..n |-> Output(map, t, i - 1)]

Response(R) ==
    IF R.stage # "shocks" THEN R
    ELSE IF R.arg[4] < 1 THEN Abort(R, "LengthError")
    ELSE [R EXCEPT !.stage = "path",
                   !.income = ResponsePath("Y", R.arg, R.arg[4]),
                   !.consumption = ResponsePath("C", R.arg, R.arg[4])]

\* get_Sv, solve_sv, get_SvBFy
Robust(R) ==
    IF R.stage # "path" THEN R
    ELSE IF R.num = "resolvent" THEN Abort(R, "SolverInvariantViolation")
    ELSE [R EXCEPT !.stage = "done",
                   !.out = <<R.income, R.consumption,
                             <<"solution", R.arg[1], R.arg[2], R.arg[3]>>,
                             <<"Sv", R.arg[1], R.arg[2], R.arg[3]>>,
                             <<"SvBFy", R.arg[1], R.arg[2], R.arg[3]>>,
                             <<"coefH", R.arg[1], R.arg[2], R.arg[3]>> >>]

\* the whole call on one tuple
Evaluate(t, num) ==
    Robust(Response(AddShocks(Checks(StableMatrix(ComputeN(SolveJ(
        Eliminate(Parameters(NewRun(t, num))))))))))

Raises(t, num) == Evaluate(t, num).stage = "failed"

(***************************************************************************)
(* pool.starmap                                                            *)
(***************************************************************************)
\* the chunk size starmap picks for n tasks
ChunkSize(n) ==
    IF n = 0 THEN 0
    ELSE IF n % (PoolSize * 4) = 0 THEN n \div (PoolSize * 4)
    ELSE (n \div (PoolSize * 4)) + 1

NumChunks(n) == IF n = 0 THEN 0 ELSE CeilDiv(n, ChunkSize(n))

\* the grid positions of chunk c (chunks count from 1)
ChunkPositions(c, n) ==
    (((c - 1) * ChunkSize(n)) + 1)..Min(c * ChunkSize(n), n)

\* what a worker does with chunk c: it evaluates the tuples in order and
\* stops at the first that raises.  It sends back (True, list) or
\* (False, exception); done are the positions it evaluated.
MapStar(c) ==
    LET ps == ChunkPositions(c, Len(prd))
        bad == {i \in ps : Raises(prd[i], numerics[i])}
        first == IF bad = {} THEN 0 ELSE CHOOSE i \in bad : \A j \in bad : i <= j
    IN  IF first = 0
        THEN [ok |-> TRUE,
              res |-> [k \in 1..Cardinality(ps) |->
                          Evaluate(prd[((c - 1) * ChunkSize(Len(prd))) + k],
                                   numerics[((c - 1) * ChunkSize(Len(prd))) + k]).out],
              done |-> ps]
        ELSE [ok |-> FALSE,
              res |-> Evaluate(prd[first], numerics[first]).fail,
              done |-> {i \in ps : i <= first}]

\* SetSlice with the slice starting at the chunk's number
SetSlice_unscaled(val, c, res) ==
    [i \in 1..Len(val) |->
        IF c - 1 < i /\ i <= c - 1 + Len(res) THEN res[i - (c - 1)] ELSE val[i]]

\* MapResult._set on success: the list's slice for chunk c takes the chunk's
\* results, value[i*chunksize:(i+1)*chunksize] = result
SetSlice(val, c, res) ==
    LET lo == (c - 1) * ChunkSize(Len(val))
    IN  [i \in 1..Len(val) |->
            IF lo < i /\ i <= lo + Len(res) THEN res[i - lo] ELSE val[i]]

\* the main cell reaches the sweep: prd is built and handed to the pool
Starmap ==
    /\ pc = "grid"
    /\ LET p == Product(alpha_range, NegLogAll(chi_range), epsilon_range, <<T>>)
       IN  /\ prd' = p
           /\ taskq' = [c \in 1..NumChunks(Len(p)) |-> c]
           /\ value' = [i \in 1..Len(p) |-> None]
           /\ number_left' = NumChunks(Len(p))
           /\ evals' = [i \in 1..Len(p) |-> 0]
    /\ success' = TRUE
    /\ pc' = "sweep"
    /\ UNCHANGED <<alpha_range, chi_range, epsilon_range, running, numerics,
                   results, exc, sel, shown, run>>

\* an idle worker takes the next chunk off the task queue
Take ==
    /\ pc = "sweep"
    /\ taskq # <<>>
    /\ Cardinality(running) < PoolSize
    /\ running' = running \cup {Head(taskq)}
    /\ taskq' = Tail(taskq)
    /\ UNCHANGED <<alpha_range, chi_range, epsilon_range, prd, pc, value,
                   success, number_left, evals, numerics, results, exc, sel,
                   shown, run>>

\* a worker finishes chunk c and its result reaches MapResult._set
Complete(c) ==
    /\ pc = "sweep"
    /\ c \in running
    /\ running' = running \ {c}
    /\ number_left' = number_left - 1
    /\ \E m \in {MapStar(c)} :
           /\ evals' = [i \in DOMAIN evals |->
                           IF i \in m.done THEN evals[i] + 1 ELSE evals[i]]
           /\ IF m.ok /\ success
              THEN /\ value' = SetSlice(value, c, m.res)
                   /\ success' = success
              ELSE IF ~m.ok /\ success
              THEN /\ value' = m.res
                   /\ success' = FALSE
              ELSE UNCHANGED <<value, success>>
    /\ UNCHANGED <<alpha_range, chi_range, epsilon_range, prd, pc, taskq,
                   numerics, results, exc, sel, shown, run>>

\* every chunk is in: starmap returns the list, or raises the stored
\* exception and the cell stops
Get ==
    /\ pc = "sweep"
    /\ number_left = 0
    /\ IF success
       THEN /\ results' = value
            /\ pc' = "interact"
            /\ exc' = exc
       ELSE /\ exc' = value
            /\ pc' = "raised"
            /\ results' = results
    /\ UNCHANGED <<alpha_range, chi_range, epsilon_range, prd, taskq, running,
                   value, success, number_left, evals, numerics, sel, shown,
                   run>>

(***************************************************************************)
(* update                                                                  *)
(***************************************************************************)
\* np.argwhere(xs == v)[0,0]: the first index (from 0) holding v, -1 when
\* there is none and the subscript raises IndexError
ArgWhere(xs, v) ==
    LET hits == {i \in 1..Len(xs) : xs[i] = v}
    IN  IF hits = {} THEN 0 - 1
        ELSE (CHOOSE i \in hits : \A j \in hits : i <= j) - 1

\* Index with the alpha stride taken from len_alpha
Index_swapped(ia, ic, ie) ==
    ie + ic * len_epsilon + ia * (len_alpha * len_epsilon)

Index(ia, ic, ie) == ie + ic * len_epsilon + ia * (len_chi * len_epsilon)

NotShown ==
    [status |-> "none", idx |-> 0 - 1, x |-> <<>>, y0 |-> <<>>, y1 |-> <<>>,
     SvBFy |-> <<>>, coefH |-> <<>>]

Update(a, c, e) ==
    LET ia == ArgWhere(alpha_range, a)
        ic == ArgWhere(chi_range, c)
        ie == ArgWhere(epsilon_range, e)
        idx == Index(ia, ic, ie)
    IN  IF ia < 0 \/ ic < 0 \/ ie < 0
        THEN [NotShown EXCEPT !.status = "IndexError"]
        ELSE [status |-> "ok", idx |-> idx, x |-> Range(T),
              y0 |-> results[idx + 1][1], y1 |-> results[idx + 1][2],
              SvBFy |-> results[idx + 1][5], coefH |-> results[idx + 1][6]]

\* interact calls update with the sliders' values
Interact ==
    /\ pc = "interact"
    /\ shown' = Update(sel[1], sel[2], sel[3])
    /\ pc' = "shown"
    /\ UNCHANGED <<alpha_range, chi_range, epsilon_range, prd, taskq, running,
                   value, success, number_left, evals, numerics, results, exc,
                   sel, run>>

(***************************************************************************)
(* The sweep on a bounded grid                                             *)
(***************************************************************************)
Prefix(xs, n) == SubSeq(xs, 1, Min(n, Len(xs)))

SweepSize == Min(NAlpha, Len(FullAlphaRange)) * Min(NChi, Len(FullChiRange))
                 * Len(FullEpsilonRange)

Init ==
    /\ alpha_range = Prefix(FullAlphaRange, NAlpha)
    /\ chi_range = Prefix(FullChiRange, NChi)
    /\ epsilon_range = FullEpsilonRange
    /\ prd = <<>>
    /\ pc = "grid"
    /\ taskq = <<>>
    /\ running = {}
    /\ value = <<>>
    /\ success = TRUE
    /\ number_left = 0
    /\ evals = <<>>
    /\ numerics \in {[i \in 1..SweepSize |->
                          IF i \in CanFail THEN g[i] ELSE "regular"] :
                      g \in [CanFail -> SweepNumerics]}
    /\ results = None
    /\ exc = None
    /\ sel = Defaults
    /\ shown = NotShown
    /\ run = Idle

Next ==
    \/ Starmap
    \/ Take
    \/ \E c \in running : Complete(c)
    \/ Get
    \/ Interact

Spec == Init /\ [][Next]_vars

(***************************************************************************)
(* The sliders over the whole grid                                         *)
(***************************************************************************)
FullPrd ==
    Product(FullAlphaRange, NegLogAll(FullChiRange), FullEpsilonRange, <<T>>)

FullResults == [i \in 1..Len(FullPrd) |-> Evaluate(FullPrd[i], "regular").out]

Elements(xs) == {xs[i] : i \in 1..Len(xs)}

\* every choice that is a member of the grid
GridChoices ==
    {<<a, c, e>> : a \in Elements(FullAlphaRange), c \in Elements(FullChiRange),
                   e \in Elements(FullEpsilonRange)}

\* every value of each slider, the other two sliders at their minimum
SliderChoices ==
    {<<a, chi[1], epsilon[1]>> : a \in SliderValues(alpha)}
        \cup {<<alpha[1], c, epsilon[1]>> : c \in SliderValues(chi)}
        \cup {<<alpha[1], chi[1], e>> : e \in SliderValues(epsilon)}

\* the sweep over the whole grid has returned, and the sliders are set
UIInit ==
    /\ alpha_range = FullAlphaRange
    /\ chi_range = FullChiRange
    /\ epsilon_range = FullEpsilonRange
    /\ prd = FullPrd
    /\ pc = "interact"
    /\ taskq = <<>>
    /\ running = {}
    /\ value = FullResults
    /\ success = TRUE
    /\ number_left = 0
    /\ evals = [i \in 1..Len(FullPrd) |-> 1]
    /\ numerics = [i \in 1..Len(FullPrd) |-> "regular"]
    /\ results = FullResults
    /\ exc = None
    /\ sel \in GridChoices \cup SliderChoices \cup {Defaults}
    /\ shown = NotShown
    /\ run = Idle

UINext == Interact

UISpec == UIInit /\ [][UINext]_vars

(***************************************************************************)
(* One call of the solver, stage by stage                                  *)
(***************************************************************************)
\* tuples outside the admissible domain: alpha above 1, chi at and above 1,
\* eta at 0
Inadmissible ==
    {<<Milli + 500, NegLog(400), 900>>, <<100, NegLog(Milli), 900>>,
     <<100, NegLog(Milli + 200), 900>>, <<100, NegLog(400), 0>>}

SolveInit ==
    /\ alpha_range = FullAlphaRange
    /\ chi_range = FullChiRange
    /\ epsilon_range = FullEpsilonRange
    /\ prd = <<>>
    /\ pc = "grid"
    /\ taskq = <<>>
    /\ running = {}
    /\ value = <<>>
    /\ success = TRUE
    /\ number_left = 0
    /\ evals = <<>>
    /\ numerics = <<>>
    /\ results = None
    /\ exc = None
    /\ sel = Defaults
    /\ shown = NotShown
    /\ \E t \in {<<p[1], p[2], p[3]>> : p \in Elements(FullPrd)} \cup Inadmissible,
          n \in 0..MaxT, num \in Numerics :
          run = NewRun(<<t[1], t[2], t[3], n>>, num)

\* what a call of the solver leaves alone
notebook == <<alpha_range, chi_range, epsilon_range, prd, pc, taskq, running,
              value, success, number_left, evals, numerics, results, exc,
              sel, shown>>

StepParameters ==
    /\ run.stage = "start"
    /\ run' = Parameters(run)
    /\ UNCHANGED notebook

StepEliminate ==
    /\ run.stage = "params"
    /\ run' = Eliminate(run)
    /\ UNCHANGED notebook

StepSolveJ ==
    /\ run.stage = "reduced"
    /\ run' = SolveJ(run)
    /\ UNCHANGED notebook

StepComputeN ==
    /\ run.stage = "J"
    /\ run' = ComputeN(run)
    /\ UNCHANGED notebook

StepStableMatrix ==
    /\ run.stage = "N"
    /\ run' = StableMatrix(run)
    /\ UNCHANGED notebook

StepChecks ==
    /\ run.stage = "A"
    /\ run' = Checks(run)
    /\ UNCHANGED notebook

StepAddShocks ==
    /\ run.stage = "checked"
    /\ run' = AddShocks(run)
    /\ UNCHANGED notebook

StepResponse ==
    /\ run.stage = "shocks"
    /\ run' = Response(run)
    /\ UNCHANGED notebook

StepRobust ==
    /\ run.stage = "path"
    /\ run' = Robust(run)
    /\ UNCHANGED notebook

SolveNext ==
    \/ StepParameters
    \/ StepEliminate
    \/ StepSolveJ
    \/ StepComputeN
    \/ StepStableMatrix
    \/ StepChecks
    \/ StepAddShocks
    \/ StepResponse
    \/ StepRobust

SolveSpec == SolveInit /\ [][SolveNext]_vars

(***************************************************************************)
(* Properties                                                              *)
(***************************************************************************)
Returned == pc \in {"interact", "shown"}

Finished == pc \in {"interact", "shown", "raised"}

GridSize == len_alpha * len_chi * len_epsilon

\* C1: once the sweep has returned, results[i] is the output of the solver
\* on the i-th tuple of the product, whatever order the chunks were taken
\* and completed in.
C1_ResultsByPosition ==
    Returned =>
        /\ Len(results) = Len(prd)
        /\ \A i \in 1..Len(prd) :
              results[i] = Evaluate(prd[i], numerics[i]).out

\* the sweep has returned a list for the whole bounded grid
C1_Witness ==
    /\ pc = "interact"
    /\ results # None
    /\ Len(results) = SweepSize
    /\ \A i \in 1..Len(prd) : evals[i] = 1

\* C2: when the evaluation of one tuple fails, the sweep still completes and
\* delivers the result of every other tuple.
C2_FailureIsLocal ==
    Finished =>
        /\ pc # "raised"
        /\ results # None
        /\ \A i \in 1..Len(prd) :
              ~Raises(prd[i], numerics[i]) =>
                  results[i] = Evaluate(prd[i], numerics[i]).out

\* C3: for a choice that is a member of the grid, update's index is the
\* position of (alpha, -log(chi), epsilon, T) in the product, inside
\* 0..len_alpha*len_chi*len_epsilon-1, and what it shows is the result of
\* that tuple.  The tuple at an index gives the choice back and there are as
\* many choices as indices, so the choices and the indices are in bijection.
C3_IndexIsProductPosition ==
    (pc = "shown" /\ sel \in GridChoices) =>
        /\ shown.status = "ok"
        /\ shown.idx \in 0..(GridSize - 1)
        /\ Len(prd) = GridSize
        /\ prd[shown.idx + 1] = <<sel[1], NegLog(sel[2]), sel[3], T>>
        /\ \A c \in Elements(chi_range) : NegLog(c) = NegLog(sel[2]) => c = sel[2]
        /\ Cardinality(GridChoices) = GridSize
        /\ shown.y0 = Evaluate(<<sel[1], NegLog(sel[2]), sel[3], T>>, "regular").out[1]
        /\ shown.y1 = Evaluate(<<sel[1], NegLog(sel[2]), sel[3], T>>, "regular").out[2]

\* update has shown the last tuple of the grid
C3_Witness ==
    /\ pc = "shown"
    /\ sel \in GridChoices
    /\ shown.status = "ok"
    /\ shown.idx = GridSize - 1
    /\ sel = <<101, 950, 100000>>

\* C4: a failed tuple is reported with its parameters and its failure kind,
\* and no partial numeric result of a failed tuple is in results or shown.
C4_FailureReported ==
    /\ Finished =>
          \A i \in 1..Len(prd) :
              (evals[i] > 0 /\ Raises(prd[i], numerics[i])) =>
                  exc = Evaluate(prd[i], numerics[i]).fail
    /\ results # None =>
          \A i \in 1..Len(results) :
              /\ ~Raises(prd[i], numerics[i])
              /\ results[i] = Evaluate(prd[i], numerics[i]).out
    /\ shown.status = "ok" => ~Raises(prd[shown.idx + 1], numerics[shown.idx + 1])

\* C5: both checks are performed before the shocks are re-attached and
\* before any path or price is produced; a failed check ends the run in
\* SolverInvariantViolation with no result.
C5_ChecksBeforeShocks ==
    /\ run.stage \in {"checked", "shocks", "path", "done"} =>
          /\ run.checked = {"residual", "spectrum"}
          /\ run.num \notin {"residual", "spectrum"}
    /\ run.checked = {} =>
          /\ run.stage \notin {"checked", "shocks", "path", "done"}
          /\ run.income = <<>> /\ run.consumption = <<>> /\ run.out = None
    /\ (run.checked # {} /\ run.num \in {"residual", "spectrum"}) =>
          /\ run.stage = "failed"
          /\ run.fail[1] = "SolverInvariantViolation"
          /\ run.income = <<>> /\ run.consumption = <<>> /\ run.out = None

\* a run whose eigenvalue check failed
C5_Witness ==
    /\ run.num = "spectrum"
    /\ run.checked = {"residual", "spectrum"}
    /\ run.stage = "failed"

\* C6: after the sweep every tuple of the grid has been evaluated exactly
\* once and results has one entry per tuple.
C6_OncePerTuple ==
    Finished =>
        /\ \A i \in 1..Len(prd) : evals[i] = 1
        /\ results # None
        /\ Len(results) = GridSize

\* C7: for T >= 1 the income and consumption sequences have length T, the
\* length of the figure's x = range(T), and start at the period-0 impulse
\* values; T = 0 is rejected with a length error and no sequences.
C7_PathLength ==
    /\ run.stage \in {"path", "done"} =>
          /\ run.arg[4] >= 1
          /\ Len(run.income) = run.arg[4]
          /\ Len(run.consumption) = run.arg[4]
          /\ Len(Range(run.arg[4])) = Len(run.income)
          /\ run.income[1] = Output("Y", run.arg, 0)
          /\ run.consumption[1] = Output("C", run.arg, 0)
    /\ (run.arg[4] = 0 /\ run.stage \notin {"start", "params", "reduced", "J",
                                            "N", "A", "checked", "shocks"}) =>
          /\ run.stage = "failed"
          /\ run.income = <<>> /\ run.consumption = <<>>
          /\ (Admissible(run.arg) /\ run.num \in {"regular", "resolvent"}) =>
                run.fail[1] = "LengthError"

\* a path for T = 1
C7_Witness ==
    /\ run.stage = "path"
    /\ run.arg[4] = 1
    /\ run.income = <<Output("Y", run.arg, 0)>>

\* C8: for every value a slider can take, and for update's initial values,
\* update finds the value in the grid and shows a result.
C8_SliderValueFound ==
    (pc = "shown" /\ sel \in SliderChoices \cup {Defaults}) =>
        shown.status = "ok"

\* C9: the sweep completes.  A cell that has come to its end has evaluated
\* every tuple and starmap has returned; update sees results only as the
\* complete list.
C9_SweepCompletes ==
    /\ pc \in {"raised", "shown"} =>
          /\ Returned
          /\ results # None
          /\ \A i \in 1..Len(prd) : evals[i] = 1
    /\ shown.status # "none" => (Returned /\ Len(results) = Len(prd))

\* C10: every tuple of the grid is admissible (0 <= alpha <= 1,
\* 0 <= chi < 1 with psi = -log(chi) > 0, eta > 0), so no tuple of the grid
\* ends in InvalidParameter.
C10_GridAdmissible ==
    (/\ run.arg[1] \in Elements(alpha_range)
     /\ run.arg[2] \in Elements(NegLogAll(chi_range))
     /\ run.arg[3] \in Elements(epsilon_range)) =>
        /\ Admissible(run.arg)
        /\ 0 <= run.arg[1] /\ run.arg[1] <= Milli
        /\ \A c \in Elements(chi_range) :
              NegLog(c) = run.arg[2] => (0 <= c /\ c < Milli)
        /\ run.arg[3] > 0
        /\ ~(run.stage = "failed" /\ run.fail[1] = "InvalidParameter")

\* the tuple with the largest chi of the grid has passed validation
C10_Witness ==
    /\ run.stage = "params"
    /\ run.arg[1] \in Elements(alpha_range)
    /\ run.arg[2] = NegLog(950)
    /\ run.arg[3] \in Elements(epsilon_range)

====
